---- MODULE Spec2Model ----
(***************************************************************************)
(* Model of the quallocator bump engine (src/bump): a doubly linked list   *)
(* of block headers embedded in one contiguous arena that is grown and     *)
(* shrunk with sbrk, guarded by the process-wide mutex bump_memory.        *)
(*                                                                         *)
(* Addresses and sizes are byte counts.  A header is a record stored at    *)
(* its address in mem; Option<p> is <<>> (None) or <<p>> (Some(p)).        *)
(* Headers that are no longer reachable from the list head are dropped     *)
(* from mem: the code only ever reaches a header through the head and the  *)
(* next/prev links.  Writes of callers into their blocks are not modelled. *)
(* The code compares addresses after a cast to i32; the addresses used     *)
(* here are small enough for the cast to keep them apart.                  *)
(*                                                                         *)
(* Spec is the allocator driven by a single caller, one call per step.     *)
(* ConcSpec is the allocator called by several threads, a call being the   *)
(* steps lock / scan / finish (or free) / return; FairSpec adds that       *)
(* threads keep running and that the lock is fair.                         *)
(* AlignSpec applies align_up and the size computation of allocate_block   *)
(* to a size chosen in the initial state.                                  *)
(* StepSpec is the allocator driven by a single caller with the loops of   *)
(* qualloc, merge_adjacent_free_blocks and qudelloc taken one iteration    *)
(* per step, for longer runs of calls.  There a header can come to lie     *)
(* above the break: reading it gives what was last written, or zeroes, or  *)
(* a fault, depending on what the kernel did with its page.                *)
(* MmapSpec is the region engine (src/mmap) driven by a single caller:     *)
(* a list of regions mapped with mmap, each with a list of sections.       *)
(***************************************************************************)
EXTENDS Integers, Sequences, FiniteSets, TLC

(* ---------------- bounds of the model ---------------- *)

\* number of qualloc/qudelloc calls in one behaviour of the single caller
MaxOps == 6

\* number of calls in one behaviour of the concurrent callers
MaxConcOps == 6

\* the threads that call the allocator concurrently
NThreads == 2
Threads == 1..NThreads

\* the request sizes of the concurrent callers
ConcSizes == {0, 56}

\* request sizes passed to qualloc: 0, an unaligned size, its aligned value
\* (the size used by test_qualloc) and twice that value
Sizes == {0, 52, 56, 112}

\* number of calls in one behaviour of the caller whose loops are taken
\* one iteration at a time, the number of pointers it holds at once, and
\* the sizes it asks for (multiples of the header size)
MaxStepOps == 11
MaxLive == 4
StepSizes == {0, 40, 80}

\* address returned by sbrk(0) before the first allocation
InitialBreak == 4096

\* number of MmapAllocator::allocate calls in one behaviour
MaxMmapOps == 4

\* pages of address space in which the kernel places the mapped regions,
\* and the address of the first of them
MmapPages == 4
MmapLow == 65536

\* align_up is applied to the sizes 0..MaxAlignInput and to the
\* MaxAlignInput + 1 largest values of an i32
MaxAlignInput == 24

(* ---------------- program constants ---------------- *)

\* size_of::<BumpMemoryBlockHeader>() on a 64-bit target:
\* two Option<AtomicPtr> (16 bytes each), an i32 and a bool, padded to 8
HeaderSize == 40

\* null pointer, and (void*)-1, the value sbrk returns when it fails
NullPtr == 0
SbrkFailed == -1

None == <<>>
Some(p) == <<p>>
IsNone(o) == o = <<>>
Unwrap(o) == o[1]

\* i32::MAX
MaxI32 == 2147483647

\* a + b on i32 as the release build computes it (two's complement wrap-around)
wrapping_add(a, b) ==
    IF b >= 0 /\ a > MaxI32 - b
    THEN (a - MaxI32 - 1) + (b - MaxI32 - 1)
    ELSE IF b < 0 /\ a < (-MaxI32 - 1) - b
    THEN (a + MaxI32 + 1) + (b + MaxI32 + 1)
    ELSE a + b

\* rounding that always moves to the next multiple of 8: (size + 8) & !(8 - 1)
align_up_NextMultiple(size) ==
    LET t == wrapping_add(size, 8)
    IN  t - (t % 8)

\* (size + (8 - 1)) & !(8 - 1): clearing the low three bits of a two's
\* complement number rounds it down to a multiple of 8
align_up(size) ==
    LET t == wrapping_add(size, 8 - 1)
    IN  t - (t % 8)

NewHeader(size, is_free, next, prev) ==
    [size |-> size, is_free |-> is_free, next |-> next, prev |-> prev]

VARIABLES
    bump_memory,   \* the list head guarded by the mutex: None or Some(address)
    mem,           \* address -> header, for the headers reachable from the head
    brk,           \* the program break (heap boundary)
    live,          \* the pointers returned and not yet deallocated, with their requested size
    hist,          \* the calls of the single caller: arguments, results, head and break before and after
    crashed,       \* the process has faulted inside a call
    ncalls,        \* number of calls started
    mutex,         \* the Mutex around bump_memory: None or Some(thread holding the guard)
    pc,            \* per thread: where it is in its call
    req,           \* per thread: the call it is making
    found,         \* per thread: current_node / last_node once the scan of qualloc is over
    snap,          \* per thread: head, headers and break when it took the lock
    result,        \* per thread: the value its call returns
    al_in,         \* the size handed to align_up
    al_type,       \* align_of::<T>() of the type the caller allocates
    al_out,        \* what align_up and allocate_block computed from al_in
    al_panic,      \* the computation stopped with "attempt to add with overflow"
    mmap_memory,   \* the head of the region list guarded by its mutex: None or Some(address)
    regions,       \* address -> region header
    sections,      \* address -> section header
    mapped,        \* the mappings of the process: records [base, len]
    mlive,         \* the pointers MmapAllocator::allocate returned, with their requested size
    mcall,         \* the last call of MmapAllocator::allocate and what it did
    mstopped,      \* a call panicked holding the guard of mmap_memory, or the process faulted
    mcalls,        \* number of calls of MmapAllocator::allocate
    walk           \* the locals of the call in progress when its loops are taken one iteration per step

threads == <<mutex, pc, req, found, snap, result>>
bump_vars == <<bump_memory, mem, brk, live, hist, crashed, ncalls, mutex, pc, req, found, snap, result, walk>>
align_vars == <<al_in, al_type, al_out, al_panic>>
region_vars == <<mmap_memory, regions, sections, mapped, mlive, mcall, mstopped, mcalls>>
outside_bump == <<align_vars, region_vars, walk>>
outside_step == <<align_vars, region_vars, threads, hist>>
vars == <<bump_vars, align_vars, region_vars>>

(* ---------------- the OS primitive ---------------- *)

\* sbrk that never gives memory back (a negative delta is ignored)
sbrk_NeverShrinks(b, delta, ok) ==
    IF ok THEN [ret |-> b, brk |-> IF delta < 0 THEN b ELSE b + delta]
          ELSE [ret |-> SbrkFailed, brk |-> b]

\* sbrk(delta): the previous break and the new one; a refused request
\* returns (void*)-1 and leaves the break alone
sbrk(b, delta, ok) ==
    IF ok THEN [ret |-> b, brk |-> b + delta]
          ELSE [ret |-> SbrkFailed, brk |-> b]

(* ---------------- utils.rs ---------------- *)

\* allocate_block that forgets to align the size it records and asks for
allocate_block_Unaligned(m, b, size, ok) ==
    LET allocated_size == HeaderSize + size
        r == sbrk(b, allocated_size, ok)
        old_break == r.ret
    IN  IF old_break = NullPtr
        THEN [ret |-> None, mem |-> m, brk |-> r.brk, fault |-> FALSE]
        ELSE IF old_break = SbrkFailed
        THEN [ret |-> Some(old_break), mem |-> m, brk |-> r.brk, fault |-> TRUE]
        ELSE [ret |-> Some(old_break),
              mem |-> (old_break :> NewHeader(size, FALSE, None, None)) @@ m,
              brk |-> r.brk, fault |-> FALSE]

\* result: ret = Some(old_break) or None; fault = the header was written
\* through the pointer (void*)-1
allocate_block(m, b, size, ok) ==
    LET aligned_user_data_size == align_up(size)
        allocated_size == HeaderSize + aligned_user_data_size
        r == sbrk(b, allocated_size, ok)
        old_break == r.ret
    IN  IF old_break = NullPtr
        THEN [ret |-> None, mem |-> m, brk |-> r.brk, fault |-> FALSE]
        ELSE IF old_break = SbrkFailed
        THEN [ret |-> Some(old_break), mem |-> m, brk |-> r.brk, fault |-> TRUE]
        ELSE [ret |-> Some(old_break),
              mem |-> (old_break :> NewHeader(aligned_user_data_size, FALSE, None, None)) @@ m,
              brk |-> r.brk, fault |-> FALSE]

\* deallocate_block that gives back the data bytes but not the header
deallocate_block_KeepsHeader(b, size) ==
    sbrk(b, -size, TRUE).brk

\* sbrk(-(header size + size)); the result of sbrk is ignored
deallocate_block(b, size) ==
    LET deallocated_size == HeaderSize + size
    IN  sbrk(b, -deallocated_size, TRUE).brk

\* the while loop of merge_adjacent_free_blocks: the last scanned block and
\* the accumulated size when the loop is left; for an adjacent free successor
\* the code adds the size of the current block (not of the successor) and a
\* header, and it steps to the successor whether it is adjacent or not
RECURSIVE MergeLoop(_, _, _, _, _)
MergeLoop(m, current_block, last_scanned_block, acumulated_size, stop_size) ==
    IF ~m[current_block].is_free
    THEN [last |-> last_scanned_block, acc |-> acumulated_size]
    ELSE IF acumulated_size >= stop_size
    THEN [last |-> Some(current_block), acc |-> acumulated_size]
    ELSE LET next_block == m[current_block].next
         IN  IF IsNone(next_block)
             THEN [last |-> Some(current_block), acc |-> acumulated_size]
             ELSE LET nb == Unwrap(next_block)
                      adjacent == m[nb].is_free
                                  /\ current_block + HeaderSize + m[current_block].size = nb
                      acc2 == IF adjacent
                              THEN acumulated_size + m[current_block].size + HeaderSize
                              ELSE acumulated_size
                  IN  MergeLoop(m, nb, Some(current_block), acc2, stop_size)

\* result: merged = Some(initial_block) or None, last = the last scanned block
merge_adjacent_free_blocks(m, initial_block, stop_size) ==
    LET acc0 == IF m[initial_block].is_free THEN m[initial_block].size ELSE 0
        l == MergeLoop(m, initial_block, None, acc0, stop_size)
    IN  IF l.acc < stop_size
        THEN [merged |-> None, last |-> l.last, mem |-> m]
        ELSE LET m1 == [m EXCEPT ![initial_block].size = l.acc]
                 nxt == IF IsNone(l.last) THEN None ELSE m[Unwrap(l.last)].next
                 m2 == IF IsNone(nxt)
                       THEN [m1 EXCEPT ![initial_block].next = None]
                       ELSE [m1 EXCEPT ![initial_block].next = nxt,
                                       ![Unwrap(nxt)].prev = Some(initial_block)]
             IN  [merged |-> Some(initial_block), last |-> l.last, mem |-> m2]

(* ---------------- the list ---------------- *)

\* the addresses of the headers walked from o along next, in list order
RECURSIVE Walk(_, _, _)
Walk(m, o, fuel) ==
    IF IsNone(o) \/ fuel = 0 \/ Unwrap(o) \notin DOMAIN m
    THEN <<>>
    ELSE <<Unwrap(o)>> \o Walk(m, m[Unwrap(o)].next, fuel - 1)

Blocks(head, m) == Walk(m, head, Cardinality(DOMAIN m))

Range(s) == {s[i] : i \in DOMAIN s}

\* keep the headers the list still reaches
Reachable(head, m) ==
    LET keep == Range(Blocks(head, m))
    IN  [a \in keep |-> m[a]]

(* ---------------- allocator.rs: BumpAllocator::qualloc ---------------- *)

\* the while loop of qualloc: hit = the free block that is large enough (or
\* None when the list is exhausted), last_node = the last node visited, mem =
\* the headers after the merges made on the way
RECURSIVE ScanLoop(_, _, _, _)
ScanLoop(m, current_node, last_node, size) ==
    IF IsNone(current_node)
    THEN [hit |-> None, last_node |-> last_node, mem |-> m]
    ELSE LET node == Unwrap(current_node)
         IN  IF ~m[node].is_free
             THEN ScanLoop(m, m[node].next, Some(node), size)
             ELSE IF m[node].size < size
             THEN LET r == merge_adjacent_free_blocks(m, node, size)
                  IN  IF ~IsNone(r.merged)
                      THEN ScanLoop(r.mem, r.merged, Some(node), size)
                      ELSE IF ~IsNone(r.last) /\ Unwrap(r.last) # node
                      THEN ScanLoop(r.mem, r.last, Some(node), size)
                      ELSE ScanLoop(r.mem, m[node].next, Some(node), size)
             ELSE [hit |-> Some(node), last_node |-> Some(node), mem |-> m]

\* a block taken without clearing its free flag
TakeBlock_StaysFree(m, node) == m

\* (*node).is_free = false
TakeBlock(m, node) == [m EXCEPT ![node].is_free = FALSE]

\* what qualloc does once the scan is over (or was not needed): take the
\* block found, or grow the arena and link the new block after last_node
QuallocFinish(head, b, sc, size, ok) ==
    IF ~IsNone(sc.hit)
    THEN [head |-> head, brk |-> b,
          mem |-> TakeBlock(sc.mem, Unwrap(sc.hit)),
          ret |-> Some(Unwrap(sc.hit) + HeaderSize), sbrk |-> "none", fault |-> FALSE]
    ELSE LET a == allocate_block(sc.mem, b, size, ok)
             called == IF ok THEN "ok" ELSE "refused"
         IN  IF IsNone(a.ret)
             THEN [head |-> head, brk |-> a.brk, mem |-> a.mem,
                   ret |-> None, sbrk |-> called, fault |-> FALSE]
             ELSE IF a.fault
             THEN [head |-> head, brk |-> a.brk, mem |-> a.mem,
                   ret |-> None, sbrk |-> called, fault |-> TRUE]
             ELSE LET old_break == Unwrap(a.ret)
                      linked == IF IsNone(sc.last_node)
                                THEN a.mem
                                ELSE [a.mem EXCEPT ![old_break].prev = sc.last_node,
                                                   ![Unwrap(sc.last_node)].next = Some(old_break)]
                  IN  [head |-> IF IsNone(head) THEN Some(old_break) ELSE head,
                       brk |-> a.brk, mem |-> linked,
                       ret |-> Some(old_break + HeaderSize), sbrk |-> called, fault |-> FALSE]

QuallocScan(head, m, size) ==
    IF IsNone(head)
    THEN [hit |-> None, last_node |-> None, mem |-> m]
    ELSE ScanLoop(m, head, head, size)

qualloc(head, m, b, size, ok) ==
    QuallocFinish(head, b, QuallocScan(head, m, size), size, ok)

(* ---------------- allocator.rs: BumpAllocator::qudelloc ---------------- *)

\* a loop that releases the tail block and leaves the predecessor's next
\* pointing at it
RECURSIVE FreeLoop_KeepsLink(_, _, _, _)
FreeLoop_KeepsLink(m, b, current_node, usr_data) ==
    IF IsNone(current_node)
    THEN [mem |-> m, brk |-> b, sbrk |-> "none"]
    ELSE LET node == Unwrap(current_node)
         IN  IF node + HeaderSize # usr_data
             THEN FreeLoop_KeepsLink(m, b, m[node].next, usr_data)
             ELSE LET m1 == [m EXCEPT ![node].is_free = TRUE]
                  IN  IF IsNone(m1[node].next)
                      THEN [mem |-> m1, brk |-> deallocate_block(b, m1[node].size),
                            sbrk |-> "ok"]
                      ELSE FreeLoop_KeepsLink(m1, b, m1[node].next, usr_data)

\* the while loop of qudelloc
RECURSIVE FreeLoop(_, _, _, _)
FreeLoop(m, b, current_node, usr_data) ==
    IF IsNone(current_node)
    THEN [mem |-> m, brk |-> b, sbrk |-> "none"]
    ELSE LET node == Unwrap(current_node)
         IN  IF node + HeaderSize # usr_data
             THEN FreeLoop(m, b, m[node].next, usr_data)
             ELSE LET m1 == [m EXCEPT ![node].is_free = TRUE]
                  IN  IF IsNone(m1[node].next)
                      THEN LET m2 == IF IsNone(m1[node].prev)
                                     THEN m1
                                     ELSE [m1 EXCEPT ![Unwrap(m1[node].prev)].next = None]
                           IN  [mem |-> m2, brk |-> deallocate_block(b, m1[node].size),
                                sbrk |-> "ok"]
                      ELSE FreeLoop(m1, b, m1[node].next, usr_data)

\* qudelloc that shrinks the arena whenever the head block is freed, tail or not
qudelloc_HeadAlwaysShrinks(head, m, b, usr_data) ==
    IF IsNone(head)
    THEN [head |-> head, mem |-> m, brk |-> b, sbrk |-> "none"]
    ELSE LET node == Unwrap(head)
         IN  IF node + HeaderSize = usr_data
             THEN LET m1 == [m EXCEPT ![node].is_free = TRUE]
                  IN  [head |-> IF IsNone(m1[node].next) THEN None ELSE head, mem |-> m1,
                       brk |-> deallocate_block(b, m1[node].size), sbrk |-> "ok"]
             ELSE LET r == FreeLoop(m, b, head, usr_data)
                  IN  [head |-> head, mem |-> r.mem, brk |-> r.brk, sbrk |-> r.sbrk]

qudelloc(head, m, b, usr_data) ==
    IF IsNone(head)
    THEN [head |-> head, mem |-> m, brk |-> b, sbrk |-> "none"]
    ELSE LET node == Unwrap(head)
         IN  IF node + HeaderSize = usr_data
             THEN LET m1 == [m EXCEPT ![node].is_free = TRUE]
                  IN  IF IsNone(m1[node].next)
                      THEN [head |-> None, mem |-> m1,
                            brk |-> deallocate_block(b, m1[node].size), sbrk |-> "ok"]
                      ELSE [head |-> head, mem |-> m1, brk |-> b, sbrk |-> "none"]
             ELSE LET r == FreeLoop(m, b, head, usr_data)
                  IN  [head |-> head, mem |-> r.mem, brk |-> r.brk, sbrk |-> r.sbrk]

(* ---------------- the single-caller specification ---------------- *)

NoCall == [op |-> "none", arg |-> 0]
NoScan == [hit |-> None, last_node |-> None]
NoSnap == [head |-> None, mem |-> << >>, brk |-> 0]

\* no call in progress
Idle == [pc |-> "idle", arg |-> 0, current_node |-> None, last_node |-> None,
         current_block |-> NullPtr, last_scanned_block |-> None, acumulated_size |-> 0]

NoOutput == [aligned |-> None, again |-> None, allocated_size |-> None]

\* the statics after their lazy construction, before any call
Constructed ==
    /\ bump_memory = None
    /\ mem = << >>
    /\ brk = InitialBreak
    /\ live = << >>
    /\ hist = << >>
    /\ crashed = FALSE
    /\ ncalls = 0
    /\ mutex = None
    /\ pc = [t \in Threads |-> "idle"]
    /\ req = [t \in Threads |-> NoCall]
    /\ found = [t \in Threads |-> NoScan]
    /\ snap = [t \in Threads |-> NoSnap]
    /\ result = [t \in Threads |-> None]
    /\ walk = Idle
    /\ mmap_memory = None
    /\ regions = << >>
    /\ sections = << >>
    /\ mapped = {}
    /\ mlive = {}
    /\ mcall = [size |-> 0, ret |-> None, mmap |-> "none", base |-> 0, len |-> 0,
                rollback |-> FALSE, panic |-> FALSE, fault |-> FALSE]
    /\ mstopped = FALSE
    /\ mcalls = 0

Init ==
    /\ Constructed
    /\ al_in = 0
    /\ al_type = 8
    /\ al_out = NoOutput
    /\ al_panic = FALSE

LivePtrs == {live[i].ptr : i \in DOMAIN live}

\* one call of BumpAllocator::qualloc(size); ok is the answer of the OS
\* should the call ask for more heap
Qualloc(size, ok) ==
    /\ ~crashed
    /\ UNCHANGED outside_bump
    /\ ncalls < MaxOps
    /\ ncalls' = ncalls + 1
    /\ UNCHANGED threads
    /\ LET r == qualloc(bump_memory, mem, brk, size, ok)
       IN  /\ ok \/ r.sbrk = "refused"
           /\ bump_memory' = r.head
           /\ mem' = Reachable(r.head, r.mem)
           /\ brk' = r.brk
           /\ crashed' = r.fault
           /\ live' = IF IsNone(r.ret) THEN live
                      ELSE Append(live, [ptr |-> Unwrap(r.ret), size |-> size])
           /\ hist' = Append(hist, [op |-> "qualloc", arg |-> size, ret |-> r.ret,
                                    sbrk |-> r.sbrk, fault |-> r.fault,
                                    head0 |-> bump_memory, brk0 |-> brk,
                                    head1 |-> r.head, brk1 |-> r.brk])

\* one call of BumpAllocator::qudelloc(p) for a pointer that is live
Qudelloc(p) ==
    /\ ~crashed
    /\ UNCHANGED outside_bump
    /\ ncalls < MaxOps
    /\ ncalls' = ncalls + 1
    /\ UNCHANGED threads
    /\ p \in LivePtrs
    /\ LET r == qudelloc(bump_memory, mem, brk, p)
       IN  /\ bump_memory' = r.head
           /\ mem' = Reachable(r.head, r.mem)
           /\ brk' = r.brk
           /\ crashed' = crashed
           /\ live' = SelectSeq(live, LAMBDA e : e.ptr # p)
           /\ hist' = Append(hist, [op |-> "qudelloc", arg |-> p, ret |-> None,
                                    sbrk |-> r.sbrk, fault |-> FALSE,
                                    head0 |-> bump_memory, brk0 |-> brk,
                                    head1 |-> r.head, brk1 |-> r.brk])

Next ==
    \/ \E size \in Sizes, ok \in BOOLEAN : Qualloc(size, ok)
    \/ \E p \in LivePtrs : Qudelloc(p)

Spec == Init /\ [][Next]_vars

(* ---------------- the concurrent callers ---------------- *)

\* a lock that is handed out although another thread holds the guard
LockAvailable_NeverBlocks(m) == TRUE

\* bump_memory.lock() returns once no other thread holds the guard
LockAvailable(m) == IsNone(m)

\* thread t calls qualloc(size) or qudelloc(p) and reaches bump_memory.lock();
\* a pointer handed to qudelloc is no longer the caller's
Call(t, op, arg) ==
    /\ ~crashed
    /\ UNCHANGED outside_bump
    /\ pc[t] = "idle"
    /\ ncalls < MaxConcOps
    /\ IF op = "qualloc" THEN arg \in ConcSizes ELSE arg \in LivePtrs
    /\ ncalls' = ncalls + 1
    /\ pc' = [pc EXCEPT ![t] = "lock"]
    /\ req' = [req EXCEPT ![t] = [op |-> op, arg |-> arg]]
    /\ live' = IF op = "qudelloc" THEN SelectSeq(live, LAMBDA e : e.ptr # arg) ELSE live
    /\ UNCHANGED <<bump_memory, mem, brk, hist, crashed, mutex, found, snap, result>>

\* lock() returns the guard
Acquire(t) ==
    /\ ~crashed
    /\ UNCHANGED outside_bump
    /\ pc[t] = "lock"
    /\ LockAvailable(mutex)
    /\ mutex' = Some(t)
    /\ pc' = [pc EXCEPT ![t] = IF req[t].op = "qualloc" THEN "scan" ELSE "free"]
    /\ snap' = [snap EXCEPT ![t] = [head |-> bump_memory, mem |-> mem, brk |-> brk]]
    /\ UNCHANGED <<bump_memory, mem, brk, live, hist, crashed, ncalls, req, found, result>>

\* qualloc up to the end of its while loop
Scan(t) ==
    /\ ~crashed
    /\ UNCHANGED outside_bump
    /\ pc[t] = "scan"
    /\ LET sc == QuallocScan(bump_memory, mem, req[t].arg)
       IN  /\ mem' = Reachable(bump_memory, sc.mem)
           /\ found' = [found EXCEPT ![t] = [hit |-> sc.hit, last_node |-> sc.last_node]]
    /\ pc' = [pc EXCEPT ![t] = "finish"]
    /\ UNCHANGED <<bump_memory, brk, live, hist, crashed, ncalls, mutex, req, snap, result>>

\* qualloc from the end of its while loop to the return value
Finish(t, ok) ==
    /\ ~crashed
    /\ UNCHANGED outside_bump
    /\ pc[t] = "finish"
    /\ LET sc == [hit |-> found[t].hit, last_node |-> found[t].last_node, mem |-> mem]
           r == QuallocFinish(bump_memory, brk, sc, req[t].arg, ok)
       IN  /\ ok \/ r.sbrk = "refused"
           /\ bump_memory' = r.head
           /\ mem' = Reachable(r.head, r.mem)
           /\ brk' = r.brk
           /\ crashed' = r.fault
           /\ result' = [result EXCEPT ![t] = r.ret]
           /\ pc' = [pc EXCEPT ![t] = IF r.fault THEN "finish" ELSE "unlock"]
    /\ UNCHANGED <<live, hist, ncalls, mutex, req, found, snap>>

\* the body of qudelloc
Free(t) ==
    /\ ~crashed
    /\ UNCHANGED outside_bump
    /\ pc[t] = "free"
    /\ LET r == qudelloc(bump_memory, mem, brk, req[t].arg)
       IN  /\ bump_memory' = r.head
           /\ mem' = Reachable(r.head, r.mem)
           /\ brk' = r.brk
    /\ result' = [result EXCEPT ![t] = None]
    /\ pc' = [pc EXCEPT ![t] = "unlock"]
    /\ UNCHANGED <<live, hist, crashed, ncalls, mutex, req, found, snap>>

\* the call returns: the guard is dropped and the caller owns the pointer
Unlock(t) ==
    /\ ~crashed
    /\ UNCHANGED outside_bump
    /\ pc[t] = "unlock"
    /\ mutex' = None
    /\ pc' = [pc EXCEPT ![t] = "idle"]
    /\ live' = IF req[t].op = "qualloc" /\ ~IsNone(result[t])
               THEN Append(live, [ptr |-> Unwrap(result[t]), size |-> req[t].arg])
               ELSE live
    /\ req' = [req EXCEPT ![t] = NoCall]
    /\ found' = [found EXCEPT ![t] = NoScan]
    /\ snap' = [snap EXCEPT ![t] = NoSnap]
    /\ result' = [result EXCEPT ![t] = None]
    /\ UNCHANGED <<bump_memory, mem, brk, hist, crashed, ncalls>>

ConcNext ==
    \/ \E t \in Threads, size \in ConcSizes : Call(t, "qualloc", size)
    \/ \E t \in Threads, p \in LivePtrs : Call(t, "qudelloc", p)
    \/ \E t \in Threads : Acquire(t)
    \/ \E t \in Threads : Scan(t)
    \/ \E t \in Threads, ok \in BOOLEAN : Finish(t, ok)
    \/ \E t \in Threads : Free(t)
    \/ \E t \in Threads : Unlock(t)

ConcSpec == Init /\ [][ConcNext]_vars

\* a thread inside a call keeps running, and lock() is fair: a thread that
\* waits for the guard gets it if the guard is released again and again
Progress(t) ==
    /\ SF_vars(Acquire(t))
    /\ WF_vars(Scan(t))
    /\ WF_vars(\E ok \in BOOLEAN : Finish(t, ok))
    /\ WF_vars(Free(t))
    /\ WF_vars(Unlock(t))

FairSpec == ConcSpec /\ \A t \in Threads : Progress(t)

(* ---------------- the loops, one iteration per step ---------------- *)

\* a header whose bytes were never written since the kernel mapped the page
ZeroHeader == NewHeader(0, FALSE, None, None)

\* the headers after the break was raised from b to top over pages the
\* kernel had taken back: what lies between reads as zeroes
ZeroFilled(m, b, top) ==
    [a \in DOMAIN m |-> IF b <= a /\ a < top THEN ZeroHeader ELSE m[a]]

\* the writes at the end of merge_adjacent_free_blocks
MergeWrite(m, initial_block, acumulated_size, last_scanned_block) ==
    LET m1 == [m EXCEPT ![initial_block].size = acumulated_size]
        nxt == IF IsNone(last_scanned_block) THEN None
               ELSE m[Unwrap(last_scanned_block)].next
    IN  IF IsNone(nxt)
        THEN [m1 EXCEPT ![initial_block].next = None]
        ELSE [m1 EXCEPT ![initial_block].next = nxt,
                        ![Unwrap(nxt)].prev = Some(initial_block)]

\* the pointers the caller holds with one more, kept in address order (the
\* order in which they were returned plays no part here)
Holding(l, e) ==
    LET before(x) == x.ptr < e.ptr \/ (x.ptr = e.ptr /\ x.size <= e.size)
    IN  SelectSeq(l, before) \o <<e>> \o SelectSeq(l, LAMBDA x : ~before(x))

\* the call returns r: the guard is dropped and the locals are gone
StepReturn(r, size) ==
    /\ bump_memory' = r.head
    /\ mem' = Reachable(r.head, r.mem)
    /\ brk' = r.brk
    /\ crashed' = r.fault
    /\ live' = IF IsNone(r.ret) THEN live
               ELSE Holding(live, [ptr |-> Unwrap(r.ret), size |-> size])
    /\ walk' = Idle

\* qualloc(size) on the uninitialized list: the first block becomes the head
QuallocFirst(size, ok) ==
    /\ ~crashed
    /\ walk.pc = "idle"
    /\ ncalls < MaxStepOps
    /\ Len(live) < MaxLive
    /\ IsNone(bump_memory)
    /\ ncalls' = ncalls + 1
    /\ UNCHANGED outside_step
    /\ StepReturn(QuallocFinish(bump_memory, brk,
                                [hit |-> None, last_node |-> None, mem |-> mem],
                                size, ok), size)

\* qualloc(size) on an initialized list, up to its while loop
QuallocEnter(size) ==
    /\ ~crashed
    /\ walk.pc = "idle"
    /\ ncalls < MaxStepOps
    /\ Len(live) < MaxLive
    /\ ~IsNone(bump_memory)
    /\ ncalls' = ncalls + 1
    /\ walk' = [Idle EXCEPT !.pc = "scan", !.arg = size,
                            !.current_node = bump_memory, !.last_node = bump_memory]
    /\ UNCHANGED <<bump_memory, mem, brk, live, crashed>>
    /\ UNCHANGED outside_step

\* one iteration of the while loop of qualloc, up to the call of
\* merge_adjacent_free_blocks if the iteration makes it
ScanStep ==
    /\ ~crashed
    /\ walk.pc = "scan"
    /\ ~IsNone(walk.current_node)
    /\ UNCHANGED <<ncalls, outside_step>>
    /\ LET node == Unwrap(walk.current_node)
           size == walk.arg
       IN  IF ~mem[node].is_free
           THEN /\ walk' = [walk EXCEPT !.last_node = Some(node),
                                        !.current_node = mem[node].next]
                /\ UNCHANGED <<bump_memory, mem, brk, live, crashed>>
           ELSE IF mem[node].size < size
           THEN /\ walk' = [walk EXCEPT !.pc = "merge",
                                        !.last_node = Some(node),
                                        !.current_block = node,
                                        !.last_scanned_block = None,
                                        !.acumulated_size = mem[node].size]
                /\ UNCHANGED <<bump_memory, mem, brk, live, crashed>>
           ELSE StepReturn(QuallocFinish(bump_memory, brk,
                                         [hit |-> Some(node), last_node |-> Some(node),
                                          mem |-> mem],
                                         size, TRUE), size)

\* a merge that records the accumulated size in the initial block before it
\* compares it with the requested size
MergeStep_WritesFirst ==
    /\ ~crashed
    /\ walk.pc = "merge"
    /\ UNCHANGED <<ncalls, outside_step>>
    /\ UNCHANGED <<bump_memory, brk, live, crashed>>
    /\ LET node == Unwrap(walk.current_node)
           current_block == walk.current_block
           acumulated_size == walk.acumulated_size
           stop_size == walk.arg
           is_free == mem[current_block].is_free
           last_scanned_block == IF is_free THEN Some(current_block)
                                 ELSE walk.last_scanned_block
           next_block == mem[current_block].next
       IN  IF is_free /\ acumulated_size < stop_size /\ ~IsNone(next_block)
           THEN LET nb == Unwrap(next_block)
                    adjacent == mem[nb].is_free
                                /\ current_block + HeaderSize + mem[current_block].size = nb
                IN  /\ walk' = [walk EXCEPT
                                  !.current_block = nb,
                                  !.last_scanned_block = last_scanned_block,
                                  !.acumulated_size =
                                      IF adjacent
                                      THEN acumulated_size + mem[current_block].size + HeaderSize
                                      ELSE acumulated_size]
                    /\ mem' = mem
           ELSE IF acumulated_size < stop_size
           THEN /\ mem' = [mem EXCEPT ![node].size = acumulated_size]
                /\ walk' = [Idle EXCEPT
                              !.pc = "scan", !.arg = walk.arg, !.last_node = walk.last_node,
                              !.current_node =
                                  IF ~IsNone(last_scanned_block) /\ Unwrap(last_scanned_block) # node
                                  THEN last_scanned_block
                                  ELSE mem[node].next]
           ELSE /\ mem' = MergeWrite(mem, node, acumulated_size, last_scanned_block)
                /\ walk' = [Idle EXCEPT
                              !.pc = "scan", !.arg = walk.arg, !.last_node = walk.last_node,
                              !.current_node = Some(node)]

\* one iteration of the while loop of merge_adjacent_free_blocks; the
\* iteration that leaves the loop also does what follows the loop and what
\* qualloc does with the result (its next current_node)
MergeStep ==
    /\ ~crashed
    /\ walk.pc = "merge"
    /\ UNCHANGED <<ncalls, outside_step>>
    /\ UNCHANGED <<bump_memory, brk, live, crashed>>
    /\ LET node == Unwrap(walk.current_node)
           current_block == walk.current_block
           acumulated_size == walk.acumulated_size
           stop_size == walk.arg
           is_free == mem[current_block].is_free
           last_scanned_block == IF is_free THEN Some(current_block)
                                 ELSE walk.last_scanned_block
           next_block == mem[current_block].next
       IN  IF is_free /\ acumulated_size < stop_size /\ ~IsNone(next_block)
           THEN LET nb == Unwrap(next_block)
                    adjacent == mem[nb].is_free
                                /\ current_block + HeaderSize + mem[current_block].size = nb
                IN  /\ walk' = [walk EXCEPT
                                  !.current_block = nb,
                                  !.last_scanned_block = last_scanned_block,
                                  !.acumulated_size =
                                      IF adjacent
                                      THEN acumulated_size + mem[current_block].size + HeaderSize
                                      ELSE acumulated_size]
                    /\ mem' = mem
           ELSE IF acumulated_size < stop_size
           THEN /\ mem' = mem
                /\ walk' = [Idle EXCEPT
                              !.pc = "scan", !.arg = walk.arg, !.last_node = walk.last_node,
                              !.current_node =
                                  IF ~IsNone(last_scanned_block) /\ Unwrap(last_scanned_block) # node
                                  THEN last_scanned_block
                                  ELSE mem[node].next]
           ELSE /\ mem' = MergeWrite(mem, node, acumulated_size, last_scanned_block)
                /\ walk' = [Idle EXCEPT
                              !.pc = "scan", !.arg = walk.arg, !.last_node = walk.last_node,
                              !.current_node = Some(node)]

\* qualloc after its while loop: no block was found, the arena grows.  If the
\* break had been lowered over a page boundary before, the kernel may hand
\* back zeroed pages (zeroed) instead of the bytes that were there
Grow(ok, zeroed) ==
    /\ ~crashed
    /\ walk.pc = "scan"
    /\ IsNone(walk.current_node)
    /\ UNCHANGED <<ncalls, outside_step>>
    /\ LET top == brk + HeaderSize + align_up(walk.arg)
           m0 == IF zeroed THEN ZeroFilled(mem, brk, top) ELSE mem
       IN  /\ zeroed => ok /\ m0 # mem
           /\ StepReturn(QuallocFinish(bump_memory, brk,
                                       [hit |-> None, last_node |-> walk.last_node,
                                        mem |-> m0],
                                       walk.arg, ok), walk.arg)

\* qudelloc(p) for a pointer the caller holds, up to its while loop
QudellocEnter(p) ==
    /\ ~crashed
    /\ walk.pc = "idle"
    /\ ncalls < MaxStepOps
    /\ p \in LivePtrs
    /\ ncalls' = ncalls + 1
    /\ live' = SelectSeq(live, LAMBDA e : e.ptr # p)
    /\ UNCHANGED <<crashed, outside_step>>
    /\ IF IsNone(bump_memory)
       THEN UNCHANGED <<bump_memory, mem, brk, walk>>
       ELSE LET node == Unwrap(bump_memory)
            IN  IF node + HeaderSize = p
                THEN LET m1 == [mem EXCEPT ![node].is_free = TRUE]
                     IN  IF IsNone(m1[node].next)
                         THEN /\ bump_memory' = None
                              /\ mem' = Reachable(None, m1)
                              /\ brk' = deallocate_block(brk, m1[node].size)
                              /\ walk' = Idle
                         ELSE /\ mem' = m1
                              /\ UNCHANGED <<bump_memory, brk, walk>>
                ELSE /\ walk' = [Idle EXCEPT !.pc = "free", !.arg = p,
                                             !.current_node = bump_memory]
                     /\ UNCHANGED <<bump_memory, mem, brk>>

\* one iteration of the while loop of qudelloc, or its exit
FreeStep ==
    /\ ~crashed
    /\ walk.pc = "free"
    /\ UNCHANGED <<ncalls, live, crashed, bump_memory, outside_step>>
    /\ IF IsNone(walk.current_node)
       THEN /\ walk' = Idle
            /\ UNCHANGED <<mem, brk>>
       ELSE LET node == Unwrap(walk.current_node)
            IN  IF node + HeaderSize # walk.arg
                THEN /\ walk' = [walk EXCEPT !.current_node = mem[node].next]
                     /\ UNCHANGED <<mem, brk>>
                ELSE LET m1 == [mem EXCEPT ![node].is_free = TRUE]
                     IN  IF IsNone(m1[node].next)
                         THEN LET m2 == IF IsNone(m1[node].prev)
                                        THEN m1
                                        ELSE [m1 EXCEPT ![Unwrap(m1[node].prev)].next = None]
                              IN  /\ mem' = Reachable(bump_memory, m2)
                                  /\ brk' = deallocate_block(brk, m1[node].size)
                                  /\ walk' = Idle
                         ELSE /\ mem' = m1
                              /\ brk' = brk
                              /\ walk' = [walk EXCEPT !.current_node = m1[node].next]

\* the header the next step reads
Cursor ==
    IF walk.pc = "merge" THEN Some(walk.current_block)
    ELSE IF walk.pc = "idle" THEN bump_memory
    ELSE walk.current_node

\* the header under the cursor lies above the break (the break was lowered
\* past it): it still reads as written while its page stays mapped, and the
\* access faults if the kernel took the page back
Segfault ==
    /\ ~crashed
    /\ walk.pc = "idle" => ncalls < MaxStepOps
    /\ ~IsNone(Cursor)
    /\ Unwrap(Cursor) + HeaderSize > brk
    /\ crashed' = TRUE
    /\ ncalls' = IF walk.pc = "idle" THEN ncalls + 1 ELSE ncalls
    /\ UNCHANGED <<bump_memory, mem, brk, live, walk, outside_step>>

StepNext ==
    \/ \E size \in StepSizes, ok \in BOOLEAN : QuallocFirst(size, ok)
    \/ \E size \in StepSizes : QuallocEnter(size)
    \/ ScanStep
    \/ MergeStep
    \/ \E ok \in BOOLEAN, zeroed \in BOOLEAN : Grow(ok, zeroed)
    \/ \E p \in LivePtrs : QudellocEnter(p)
    \/ FreeStep
    \/ Segfault

StepSpec == Init /\ [][StepNext]_vars

(* ---------------- align_up as a function of its argument ---------------- *)

\* the sizes align_up is applied to
AlignInputs == (0..MaxAlignInput) \cup {MaxI32 - k : k \in 0..MaxAlignInput}

\* align_of::<T>() for u8, char and u64
TypeAlignments == {1, 4, 8}

\* a + b leaves the range of i32
Overflows(a, b) == b >= 0 /\ a > MaxI32 - b

AlignInit ==
    /\ Constructed
    /\ al_in \in AlignInputs
    /\ al_type \in TypeAlignments
    /\ al_out = NoOutput
    /\ al_panic = FALSE

\* let aligned_user_data_size = align_up(size) in allocate_block::<T>;
\* checks tells whether the build panics on overflow (debug) or wraps (release)
AlignUp(checks) ==
    /\ ~al_panic
    /\ IsNone(al_out.aligned)
    /\ IF checks /\ Overflows(al_in, 8 - 1)
       THEN al_panic' = TRUE /\ al_out' = al_out
       ELSE al_panic' = FALSE /\ al_out' = [al_out EXCEPT !.aligned = Some(align_up(al_in))]
    /\ UNCHANGED <<bump_vars, region_vars, al_in, al_type>>

\* align_up applied to its own result
AlignUpAgain(checks) ==
    /\ ~al_panic
    /\ ~IsNone(al_out.aligned)
    /\ IsNone(al_out.again)
    /\ IF checks /\ Overflows(Unwrap(al_out.aligned), 8 - 1)
       THEN al_panic' = TRUE /\ al_out' = al_out
       ELSE al_panic' = FALSE
            /\ al_out' = [al_out EXCEPT !.again = Some(align_up(Unwrap(al_out.aligned)))]
    /\ UNCHANGED <<bump_vars, region_vars, al_in, al_type>>

\* let allocated_size = BumpMemoryBlockHeader::size() + aligned_user_data_size
AllocatedSize(checks) ==
    /\ ~al_panic
    /\ ~IsNone(al_out.aligned)
    /\ IsNone(al_out.allocated_size)
    /\ IF checks /\ Overflows(HeaderSize, Unwrap(al_out.aligned))
       THEN al_panic' = TRUE /\ al_out' = al_out
       ELSE al_panic' = FALSE
            /\ al_out' = [al_out EXCEPT
                              !.allocated_size = Some(wrapping_add(HeaderSize, Unwrap(al_out.aligned)))]
    /\ UNCHANGED <<bump_vars, region_vars, al_in, al_type>>

AlignNext ==
    \/ \E checks \in BOOLEAN : AlignUp(checks)
    \/ \E checks \in BOOLEAN : AlignUpAgain(checks)
    \/ \E checks \in BOOLEAN : AllocatedSize(checks)

AlignSpec == AlignInit /\ [][AlignNext]_vars

(* ---------------- the region engine (src/mmap) ---------------- *)

\* A usize is written as itself while it is small, and as v - 2^64 when it
\* is one of the largest values (usize::MAX is -1): sums and differences
\* of the numbers used here are then the wrapped results of the machine.
UsizeMax == -1

\* request sizes passed to MmapAllocator::allocate: 0, the size that fills
\* one page together with the region header, a size of more than a page,
\* and usize::MAX
MmapSizes == {0, 4032, 4096, UsizeMax}

\* a < b on usize
UsizeLess(a, b) == IF (a < 0) = (b < 0) THEN a < b ELSE b < 0

\* a + b on usize is larger than usize::MAX
UsizeAddOverflows(a, b) == IF a < 0 /\ b < 0 THEN TRUE ELSE (a < 0 \/ b < 0) /\ a + b >= 0

\* sysconf(_SC_PAGESIZE)
PageSize == 4096

\* size_of::<MmapMemoryRegion>() on a 64-bit target, for the fields that
\* allocate_region initializes: total_space, space_available and three
\* Option<AtomicPtr> links (16 bytes each)
RegionHeaderSize == 64

\* size_of::<MmapMemorySectionHeader>() on a 64-bit target: size, is_free
\* and two Option<AtomicPtr> links, padded to 8
SectionHeaderSize == 48

NewRegion(total_space, space_available, head_section, next, prev) ==
    [total_space |-> total_space, space_available |-> space_available,
     head_section |-> head_section, next |-> next, prev |-> prev]

NewSectionHeader(size, is_free, next, prev) ==
    [size |-> size, is_free |-> is_free, next |-> next, prev |-> prev]

\* ((size + page_size - 1) / page_size) * page_size
round_up_to_page_size(size) == ((size + PageSize - 1) \div PageSize) * PageSize

\* the mappings of the process as the kernel keeps them
IsMapped(mp, a) == \E m \in mp : m.base <= a /\ a < m.base + m.len

\* the page-aligned addresses the kernel may choose for a new mapping
MmapBases == {MmapLow + k * PageSize : k \in 0..(MmapPages - 1)}

\* [base, base + len) is unused address space
RangeFree(mp, base, len) ==
    /\ base \in MmapBases
    /\ base + len <= MmapLow + MmapPages * PageSize
    /\ \A m \in mp : base + len <= m.base \/ m.base + m.len <= base

Max(a, b) == IF a >= b THEN a ELSE b
Min(a, b) == IF a <= b THEN a ELSE b

\* munmap(addr, len): every page that contains a part of [addr, addr + len)
\* is unmapped; what is left of each mapping is the part below and the
\* part above that range
munmap(mp, addr, len) ==
    LET hi == addr + round_up_to_page_size(len)
    IN  {[base |-> m.base, len |-> Min(m.base + m.len, addr) - m.base] :
                m \in {x \in mp : x.base < addr}}
        \cup
        {[base |-> Max(m.base, hi), len |-> m.base + m.len - Max(m.base, hi)] :
                m \in {x \in mp : x.base + x.len > hi}}

\* the headers that are still in mapped memory
StillMapped(mp, hs) == [a \in {x \in DOMAIN hs : IsMapped(mp, x)} |-> hs[a]]

\* allocate_region(size): st is the memory of the engine,
\* base the address the kernel chooses, ok its answer, checks the build
\* (overflow checks on or off)
allocate_region(st, size, base, ok, checks) ==
    LET sum == size + RegionHeaderSize
        over1 == UsizeAddOverflows(size, RegionHeaderSize)
        over2 == UsizeAddOverflows(sum, PageSize - 1)
        block_size == round_up_to_page_size(sum)
        stored_size == block_size - SectionHeaderSize
        none == [ret |-> None, st |-> st, panic |-> FALSE, mmap |-> "failed", len |-> 0]
    IN  IF checks /\ (over1 \/ over2)
        THEN [none EXCEPT !.panic = TRUE, !.mmap = "none"]
        ELSE IF ~ok \/ block_size <= 0
        THEN none
        ELSE [ret |-> Some(base),
              st |-> [st EXCEPT
                        !.regions = (base :> NewRegion(stored_size, stored_size, None, None, None))
                                    @@ st.regions,
                        !.mapped = st.mapped \cup {[base |-> base, len |-> block_size]}],
              panic |-> FALSE, mmap |-> "ok", len |-> block_size]

\* deallocate_region(region): munmap(region, total_space + size_of region header);
\* what was stored in the unmapped pages is gone
deallocate_region(st, region) ==
    LET mp == munmap(st.mapped, region, st.regions[region].total_space + RegionHeaderSize)
    IN  [st EXCEPT !.mapped = mp,
                   !.regions = StillMapped(mp, st.regions),
                   !.sections = StillMapped(mp, st.sections)]

\* (*region).space_available -= (*section).size + size_of section header
TakeSpace(st, region, section, checks) ==
    LET need == st.sections[section].size + SectionHeaderSize
        over == UsizeAddOverflows(st.sections[section].size, SectionHeaderSize)
        under == UsizeLess(st.regions[region].space_available, need)
    IN  IF checks /\ (over \/ under)
        THEN [st |-> st, panic |-> TRUE]
        ELSE [st |-> [st EXCEPT !.regions[region].space_available = @ - need],
              panic |-> FALSE]

\* the while loop of place_section_inside_region
RECURSIVE SectionLoop(_, _, _, _, _)
SectionLoop(st, region, current_section, size, checks) ==
    IF IsNone(current_section)
    THEN [ret |-> None, st |-> st, panic |-> FALSE]
    ELSE LET section == Unwrap(current_section)
         IN  IF ~st.sections[section].is_free
             THEN SectionLoop(st, region, st.sections[section].next, size, checks)
             ELSE IF UsizeLess(st.sections[section].size, size)
             THEN SectionLoop(st, region, st.sections[section].next, size, checks)
             ELSE LET st1 == [st EXCEPT !.sections[section].is_free = FALSE]
                      t == TakeSpace(st1, region, section, checks)
                  IN  [ret |-> Some(section), st |-> t.st, panic |-> t.panic]

place_section_inside_region(st, region, size, checks) ==
    IF UsizeLess(st.regions[region].space_available, size)
    THEN [ret |-> None, st |-> st, panic |-> FALSE]
    ELSE IF IsNone(st.regions[region].head_section)
    THEN LET section_addr == region + RegionHeaderSize
             st1 == [st EXCEPT
                       !.sections = (section_addr :> NewSectionHeader(size, FALSE, None, None))
                                    @@ st.sections,
                       !.regions[region].head_section = Some(section_addr)]
             t == TakeSpace(st1, region, section_addr, checks)
         IN  [ret |-> Some(section_addr), st |-> t.st, panic |-> t.panic]
    ELSE SectionLoop(st, region, st.regions[region].head_section, size, checks)

\* the while loop of allocate over the regions
RECURSIVE RegionLoop(_, _, _, _, _)
RegionLoop(st, current_region, last_region, size, checks) ==
    IF IsNone(current_region)
    THEN [ret |-> None, last_region |-> last_region, st |-> st, panic |-> FALSE, fault |-> FALSE]
    ELSE LET region == Unwrap(current_region)
         IN  IF region \notin DOMAIN st.regions
             THEN \* the region's pages are no longer mapped: the read faults
                  [ret |-> None, last_region |-> Some(region), st |-> st,
                   panic |-> FALSE, fault |-> TRUE]
             ELSE IF UsizeLess(st.regions[region].space_available, size)
             THEN RegionLoop(st, st.regions[region].next, Some(region), size, checks)
             ELSE LET p == place_section_inside_region(st, region, size, checks)
                  IN  IF p.panic
                      THEN [ret |-> None, last_region |-> Some(region), st |-> p.st,
                            panic |-> TRUE, fault |-> FALSE]
                      ELSE IF IsNone(p.ret)
                      THEN RegionLoop(st, st.regions[region].next, Some(region), size, checks)
                      ELSE [ret |-> Some(Unwrap(p.ret) + SectionHeaderSize),
                            last_region |-> Some(region), st |-> p.st,
                            panic |-> FALSE, fault |-> FALSE]

\* a first section that is written over the region header
FirstRegion_OverHeader(st, size, base, ok, checks) ==
    LET a == allocate_region(st, size, base, ok, checks)
    IN  IF a.panic \/ IsNone(a.ret)
        THEN [ret |-> None, st |-> a.st, panic |-> a.panic, mmap |-> a.mmap, len |-> a.len,
              rollback |-> FALSE, fault |-> FALSE]
        ELSE LET new_region == Unwrap(a.ret)
                 section_addr == new_region
             IN  [ret |-> Some(section_addr + SectionHeaderSize),
                  st |-> [a.st EXCEPT
                            !.sections = (section_addr :> NewSectionHeader(size, FALSE, None, None))
                                         @@ a.st.sections,
                            !.regions[new_region].head_section = Some(section_addr),
                            !.head = Some(new_region)],
                  panic |-> FALSE, mmap |-> a.mmap, len |-> a.len, rollback |-> FALSE, fault |-> FALSE]

\* the branch of allocate for a region list that is not initialized
FirstRegion(st, size, base, ok, checks) ==
    LET a == allocate_region(st, size, base, ok, checks)
    IN  IF a.panic \/ IsNone(a.ret)
        THEN [ret |-> None, st |-> a.st, panic |-> a.panic, mmap |-> a.mmap, len |-> a.len,
              rollback |-> FALSE, fault |-> FALSE]
        ELSE LET new_region == Unwrap(a.ret)
                 section_addr == new_region + RegionHeaderSize
             IN  [ret |-> Some(section_addr + SectionHeaderSize),
                  st |-> [a.st EXCEPT
                            !.sections = (section_addr :> NewSectionHeader(size, FALSE, None, None))
                                         @@ a.st.sections,
                            !.regions[new_region].head_section = Some(section_addr),
                            !.head = Some(new_region)],
                  panic |-> FALSE, mmap |-> a.mmap, len |-> a.len, rollback |-> FALSE, fault |-> FALSE]

\* the end of allocate: no region of the list took the request
NewTailRegion(st, last_region, size, base, ok, checks) ==
    LET a == allocate_region(st, size, base, ok, checks)
    IN  IF a.panic \/ IsNone(a.ret)
        THEN [ret |-> None, st |-> a.st, panic |-> a.panic, mmap |-> a.mmap, len |-> a.len,
              rollback |-> FALSE, fault |-> FALSE]
        ELSE LET new_region == Unwrap(a.ret)
                 p == place_section_inside_region(a.st, new_region, size, checks)
             IN  IF p.panic
                 THEN [ret |-> None, st |-> p.st, panic |-> TRUE, mmap |-> a.mmap, len |-> a.len,
                       rollback |-> FALSE, fault |-> FALSE]
                 ELSE IF IsNone(p.ret)
                 THEN [ret |-> None, st |-> deallocate_region(p.st, new_region), panic |-> FALSE,
                       mmap |-> a.mmap, len |-> a.len, rollback |-> TRUE, fault |-> FALSE]
                 ELSE LET st1 == [p.st EXCEPT !.regions[new_region].prev = last_region]
                          st2 == IF IsNone(last_region) THEN st1
                                 ELSE [st1 EXCEPT !.regions[Unwrap(last_region)].next = Some(new_region)]
                      IN  [ret |-> Some(Unwrap(p.ret) + SectionHeaderSize), st |-> st2,
                           panic |-> FALSE, mmap |-> a.mmap, len |-> a.len, rollback |-> FALSE, fault |-> FALSE]

\* MmapAllocator::allocate::<T>(size) between lock() and the drop of the guard
allocate(st, size, base, ok, checks) ==
    IF IsNone(st.head)
    THEN FirstRegion(st, size, base, ok, checks)
    ELSE LET l == RegionLoop(st, st.head, None, size, checks)
         IN  IF l.panic \/ l.fault \/ ~IsNone(l.ret)
             THEN [ret |-> l.ret, st |-> l.st, panic |-> l.panic, mmap |-> "none", len |-> 0,
                   rollback |-> FALSE, fault |-> l.fault]
             ELSE NewTailRegion(l.st, l.last_region, size, base, ok, checks)

\* the memory of the engine in the current state
Engine == [head |-> mmap_memory, regions |-> regions, sections |-> sections, mapped |-> mapped]

\* one call of MmapAllocator::allocate(size). base and ok are the answer of
\* the kernel should the call map a region, checks is the build. A panic
\* unwinds through the guard and poisons mmap_memory, so that every later
\* lock().unwrap() panics; a fault ends the process.
MmapAllocate(size, base, ok, checks) ==
    /\ ~mstopped
    /\ mcalls < MaxMmapOps
    /\ mcalls' = mcalls + 1
    /\ UNCHANGED <<bump_vars, align_vars>>
    /\ LET r == allocate(Engine, size, base, ok, checks)
       IN  /\ IF r.mmap = "ok" THEN RangeFree(mapped, base, r.len) ELSE base = MmapLow
           /\ ok \/ r.mmap = "failed"
           /\ mmap_memory' = r.st.head
           /\ regions' = r.st.regions
           /\ sections' = r.st.sections
           /\ mapped' = r.st.mapped
           /\ mstopped' = (r.panic \/ r.fault)
           /\ mlive' = IF IsNone(r.ret) THEN mlive
                       ELSE mlive \cup {[ptr |-> Unwrap(r.ret), size |-> size]}
           /\ mcall' = [size |-> size, ret |-> r.ret, mmap |-> r.mmap,
                        base |-> IF r.mmap = "ok" THEN base ELSE 0, len |-> r.len,
                        rollback |-> r.rollback, panic |-> r.panic, fault |-> r.fault]

MmapNext == \E size \in MmapSizes, base \in MmapBases, ok \in BOOLEAN, checks \in BOOLEAN :
                MmapAllocate(size, base, ok, checks)

MmapSpec == Init /\ [][MmapNext]_vars

(* ---------------- vocabulary of the properties ---------------- *)

List == Blocks(bump_memory, mem)

\* the step just taken appended a call to hist
Called(op) == Len(hist') = Len(hist) + 1 /\ hist'[Len(hist')].op = op
TheCall == hist[Len(hist)]

\* an allocation that returned a pointer
Returned(e) == e.op = "qualloc" /\ ~IsNone(e.ret)

\* the free blocks of the list that can hold size, in list order
Fits(size) == SelectSeq(List, LAMBDA a : mem[a].is_free /\ mem[a].size >= size)
FreeBlocks == SelectSeq(List, LAMBDA a : mem[a].is_free)

AlignedSize == align_up(52)

(* ---------------- C1 ---------------- *)

\* C1: the byte ranges [p, p + requested size) of the live pointers are
\* pairwise disjoint (and the pointers distinct), contain no byte of a header
\* reachable from the list head, and lie between the arena base and the
\* current heap boundary.
C1_LiveRangesSafe ==
    /\ \A i, j \in DOMAIN live :
          i # j => /\ live[i].ptr # live[j].ptr
                   /\ \/ live[i].ptr + live[i].size <= live[j].ptr
                      \/ live[j].ptr + live[j].size <= live[i].ptr
    /\ \A i \in DOMAIN live, h \in DOMAIN mem :
          \/ live[i].size = 0
          \/ h + HeaderSize <= live[i].ptr
          \/ live[i].ptr + live[i].size <= h
    /\ \A i \in DOMAIN live :
          InitialBreak <= live[i].ptr /\ live[i].ptr + live[i].size <= brk

(* ---------------- C2 ---------------- *)

\* C2: the blocks walked from the list head tile the arena: the first header
\* is at the arena base, every successor starts at address + header size +
\* size of its predecessor, and the last block ends at the heap boundary.
C2_Tiling ==
    LET l == List
    IN  l # <<>> =>
          /\ l[1] = InitialBreak
          /\ \A i \in 1..(Len(l) - 1) : l[i + 1] = l[i] + HeaderSize + mem[l[i]].size
          /\ l[Len(l)] + HeaderSize + mem[l[Len(l)]].size = brk

(* ---------------- C3 ---------------- *)

\* allocate A, allocate B, free A, allocate C, all of size align_up(52), on
\* a fresh allocator
C3_Script ==
    /\ Len(hist) >= 4
    /\ Returned(hist[1]) /\ hist[1].arg = AlignedSize
    /\ Returned(hist[2]) /\ hist[2].arg = AlignedSize
    /\ hist[3].op = "qudelloc" /\ hist[3].arg = Unwrap(hist[1].ret)
    /\ Returned(hist[4]) /\ hist[4].arg = AlignedSize

C3_Scenario ==
    C3_Script =>
        /\ hist[4].ret = hist[1].ret
        /\ Unwrap(hist[2].ret) = InitialBreak + 2 * HeaderSize + AlignedSize

\* qualloc took block n without touching the heap boundary
Reused(n) ==
    /\ hist'[Len(hist')].ret = Some(n + HeaderSize)
    /\ n \in DOMAIN mem' /\ ~mem'[n].is_free
    /\ brk' = brk

\* C3 as claimed: whenever the list holds a free block whose size is at least
\* the request, qualloc returns the first such block in list order, marks it
\* non-free and leaves the heap boundary alone; and the reuse scenario gives
\* C = A, B = base + 2 * header size + align_up(52).
C3_Claimed ==
    [][ /\ (Called("qualloc") /\ Fits(hist'[Len(hist')].arg) # <<>>)
            => Reused(Fits(hist'[Len(hist')].arg)[1])
        /\ C3_Scenario' ]_vars

\* C3 as amended: when the first free block in list order has a size of at
\* least the request, qualloc returns that block, marks it non-free and leaves
\* the heap boundary alone; and the reuse scenario gives C = A,
\* B = base + 2 * header size + align_up(52).
C3_FirstFreeReuse ==
    [][ /\ (/\ Called("qualloc")
            /\ FreeBlocks # <<>>
            /\ mem[FreeBlocks[1]].size >= hist'[Len(hist')].arg)
            => Reused(FreeBlocks[1])
        /\ C3_Scenario' ]_vars

C3_Witness == C3_Script /\ hist[4].ret = hist[1].ret /\ hist[4].sbrk = "none"

(* ---------------- C4 ---------------- *)

\* allocate A and B of size align_up(52) on a fresh allocator, free the
\* x-th and then the y-th of them, allocate 2 * align_up(52)
C4_Script(x, y) ==
    /\ Len(hist) >= 5
    /\ Returned(hist[1]) /\ hist[1].arg = AlignedSize
    /\ Returned(hist[2]) /\ hist[2].arg = AlignedSize
    /\ hist[3].op = "qudelloc" /\ hist[3].arg = Unwrap(hist[x].ret)
    /\ hist[4].op = "qudelloc" /\ hist[4].arg = Unwrap(hist[y].ret)
    /\ Returned(hist[5]) /\ hist[5].arg = 2 * AlignedSize

RECURSIVE RunSpan(_, _)
RunSpan(m, a) ==
    LET nx == m[a].next
    IN  IF ~IsNone(nx) /\ m[Unwrap(nx)].is_free /\ a + HeaderSize + m[a].size = Unwrap(nx)
        THEN m[a].size + HeaderSize + RunSpan(m, Unwrap(nx))
        ELSE m[a].size

\* C5 as claimed: when the first free block qualloc meets is too small and the
\* run of adjacent free blocks it starts spans at least the request, qualloc
\* returns the data pointer of that block and does not move the heap boundary.
C5_Claimed ==
    [][ (/\ Called("qualloc")
         /\ FreeBlocks # <<>>
         /\ mem[FreeBlocks[1]].size < hist'[Len(hist')].arg
         /\ RunSpan(mem, FreeBlocks[1]) >= hist'[Len(hist')].arg)
        => /\ hist'[Len(hist')].ret = Some(FreeBlocks[1] + HeaderSize)
           /\ brk' = brk ]_vars

(* ---------------- C6 ---------------- *)

\* call i is a qualloc on an uninitialized allocator and call i + 1 frees
\* the pointer it returned
C6_RoundTripAt(i) ==
    /\ i + 1 <= Len(hist)
    /\ Returned(hist[i]) /\ IsNone(hist[i].head0)
    /\ hist[i + 1].op = "qudelloc" /\ hist[i + 1].arg = Unwrap(hist[i].ret)

\* C6: qualloc(s) on an uninitialized allocator followed by qudelloc of the
\* returned pointer puts the heap boundary back to its value before the
\* allocation and leaves the list head uninitialized.
C6_TailShrinkRoundTrip ==
    \A i \in DOMAIN hist :
        C6_RoundTripAt(i) =>
            /\ hist[i + 1].brk1 = hist[i].brk0
            /\ IsNone(hist[i + 1].head1)

C6_Witness ==
    \E i \in DOMAIN hist :
        C6_RoundTripAt(i) /\ hist[i].arg = 52 /\ hist[i + 1].brk1 = hist[i].brk0

(* ---------------- C7 ---------------- *)

\* C7: qudelloc of a live pointer whose block has a successor sets is_free of
\* that block and changes nothing else: not the heap boundary, not the list
\* head, no size, next, prev, nor the is_free of another block.
C7_NonTailFreeFrame ==
    [][ Called("qudelloc") =>
          LET n == hist'[Len(hist')].arg - HeaderSize
          IN  (n \in DOMAIN mem /\ ~IsNone(mem[n].next)) =>
                 /\ mem' = [mem EXCEPT ![n].is_free = TRUE]
                 /\ brk' = brk
                 /\ bump_memory' = bump_memory ]_vars

C7_Witness ==
    /\ hist # <<>>
    /\ TheCall.op = "qudelloc" /\ TheCall.sbrk = "none"
    /\ (TheCall.arg - HeaderSize) \in DOMAIN mem
    /\ mem[TheCall.arg - HeaderSize].is_free
    /\ ~IsNone(mem[TheCall.arg - HeaderSize].next)
    /\ TheCall.brk1 = TheCall.brk0

(* ---------------- C8 ---------------- *)

C9_Claimed ==
    [][ (Called("qualloc") /\ hist'[Len(hist')].sbrk = "refused") =>
          /\ ~crashed'
          /\ IsNone(hist'[Len(hist')].ret)
          /\ UNCHANGED <<bump_memory, mem, brk>> ]_vars

(* ---------------- C10 ---------------- *)

\* what the call of thread t does when it runs alone from the state in which
\* t took the lock
Alone(t) ==
    IF req[t].op = "qualloc"
    THEN LET r == qualloc(snap[t].head, snap[t].mem, snap[t].brk, req[t].arg, TRUE)
         IN  [head |-> r.head, mem |-> Reachable(r.head, r.mem), brk |-> r.brk, ret |-> r.ret]
    ELSE LET r == qudelloc(snap[t].head, snap[t].mem, snap[t].brk, req[t].arg)
         IN  [head |-> r.head, mem |-> Reachable(r.head, r.mem), brk |-> r.brk, ret |-> None]

InCall == {t \in Threads : pc[t] \in {"scan", "finish", "free", "unlock"}}

\* C10: at most one call is between its first read of the list head and its
\* last mutation; a call that is about to return leaves the head, the headers
\* and the heap boundary, and returns the pointer, that the same call gives
\* when run alone from the state in which it took the lock (so the calls take
\* effect one after the other, in the order of the lock); and the pointers
\* the callers hold are pairwise different.
C10_Serialized ==
    /\ Cardinality(InCall) <= 1
    /\ \A t \in Threads :
          pc[t] = "unlock" =>
              /\ bump_memory = Alone(t).head
              /\ mem = Alone(t).mem
              /\ brk = Alone(t).brk
              /\ result[t] = Alone(t).ret
    /\ \A t \in Threads :
          (pc[t] = "unlock" /\ req[t].op = "qualloc") =>
              \A i \in DOMAIN live : live[i].ptr # Unwrap(result[t])
    /\ \A i, j \in DOMAIN live : i # j => live[i].ptr # live[j].ptr

\* two threads allocate concurrently: one is about to return a reused block
\* while the other waits for the lock
C10_Witness ==
    \E t, u \in Threads :
        /\ t # u
        /\ pc[t] = "unlock" /\ req[t].op = "qualloc" /\ ~IsNone(result[t])
        /\ pc[u] = "lock" /\ req[u].op = "qualloc"
        /\ live # <<>>

(* ---------------- C11 ---------------- *)

\* C11 (as claimed): every call releases the lock on every return path,
\* the no-memory path included, so the lock is free whenever no call is in
\* progress, and under fair lock acquisition every call of every thread
\* eventually returns.
C11_Claimed ==
    /\ []((\A t \in Threads : pc[t] = "idle") => IsNone(mutex))
    /\ \A t \in Threads : (pc[t] # "idle") ~> (pc[t] = "idle")

(* ---------------- C12 ---------------- *)

SmallestMultiple(a, s) == ((s + a - 1) \div a) * a

\* C13 (as claimed): align_up rounds to the alignment of the caller's type
\* T, returning the smallest multiple of align_of::<T>() that is >= the
\* input; for a type of alignment 1 every size is returned unchanged, e.g.
\* align_up(17) = 17.
C13_Claimed ==
    (~Overflows(al_in, 8 - 1) /\ ~IsNone(al_out.aligned)) =>
        Unwrap(al_out.aligned) = SmallestMultiple(al_type, al_in)

(* ---------------- C14 ---------------- *)

\* C14 (as claimed): for every s with 0 <= s <= 2^31 - 1 align_up returns,
\* without overflow or failure, r with r >= s and r - s < 8, and
\* header_size + align_up(s) in allocate_block does not overflow.
C14_Claimed ==
    /\ ~al_panic
    /\ ~IsNone(al_out.aligned) =>
            /\ Unwrap(al_out.aligned) >= al_in
            /\ Unwrap(al_out.aligned) - al_in < 8
    /\ ~IsNone(al_out.allocated_size) =>
            /\ ~Overflows(HeaderSize, Unwrap(al_out.aligned))
            /\ Unwrap(al_out.allocated_size) = HeaderSize + Unwrap(al_out.aligned)

(* ---------------- vocabulary of the region engine ---------------- *)

\* the regions of the list, from the head along the next links
RECURSIVE RegionWalk(_, _)
RegionWalk(o, fuel) ==
    IF IsNone(o) \/ fuel = 0 \/ Unwrap(o) \notin DOMAIN regions THEN {}
    ELSE {Unwrap(o)} \cup RegionWalk(regions[Unwrap(o)].next, fuel - 1)

RegionList == RegionWalk(mmap_memory, Cardinality(DOMAIN regions))

\* the sections of a region, from its head section along the next links
RECURSIVE SectionWalk(_, _)
SectionWalk(o, fuel) ==
    IF IsNone(o) \/ fuel = 0 \/ Unwrap(o) \notin DOMAIN sections THEN << >>
    ELSE <<Unwrap(o)>> \o SectionWalk(sections[Unwrap(o)].next, fuel - 1)

SectionsOf(r) == SectionWalk(regions[r].head_section, Cardinality(DOMAIN sections))

\* sum of size + header size over the sections of r that are not free
RECURSIVE UsedSpace(_)
UsedSpace(secs) ==
    IF secs = << >> THEN 0
    ELSE (IF sections[Head(secs)].is_free THEN 0
          ELSE sections[Head(secs)].size + SectionHeaderSize) + UsedSpace(Tail(secs))

\* the step is a call of MmapAllocator::allocate
MmapCalled == mcalls' = mcalls + 1

\* the mapped length of the region at address r
MappedLength(r) == {m.len : m \in {x \in mapped : x.base = r}}

(* ---------------- C15 ---------------- *)

\* [p, p + n) lies in the mapping of region r behind its two headers
InsideRegion(e, r) ==
    /\ e.size >= 0
    /\ \E m \in mapped :
          /\ m.base = r
          /\ r + RegionHeaderSize + SectionHeaderSize <= e.ptr
          /\ e.ptr + e.size <= r + m.len

Disjoint(e, f) ==
    /\ e.size >= 0
    /\ f.size >= 0
    /\ e.ptr + e.size <= f.ptr \/ f.ptr + f.size <= e.ptr

\* C15 (as claimed): every pointer p returned for a request of size n has
\* [p, p + n) entirely inside the mapped range of one region, after the
\* region header and the section header, and the ranges of distinct
\* returned pointers are pairwise disjoint.
C15_Claimed ==
    /\ \A e \in mlive : \E r \in RegionList : InsideRegion(e, r)
    /\ \A e, f \in mlive : e.ptr # f.ptr => Disjoint(e, f)

(* ---------------- C16 ---------------- *)

\* C16 (as claimed): in every state each region's space_available equals
\* its total_space minus the sum of (section.size + section header size)
\* over its sections that are not free, and never underflows below 0.
C16_Claimed ==
    \A r \in RegionList :
        /\ regions[r].space_available >= 0
        /\ regions[r].space_available = regions[r].total_space - UsedSpace(SectionsOf(r))

(* ---------------- C17 ---------------- *)

\* the call returned the no-memory result
NoMemory(c) == IsNone(c.ret) /\ ~c.panic /\ ~c.fault

\* C17 (as claimed): whenever allocate returns the no-memory result,
\* because mapping a region failed or because placing the section in the
\* freshly mapped region failed, the region list (head, links, counters,
\* sections) is what it was before the call and no region mapped by the
\* call remains mapped.
C17_Claimed ==
    [][(MmapCalled /\ NoMemory(mcall')) =>
            /\ mmap_memory' = mmap_memory
            /\ regions' = regions
            /\ sections' = sections
            /\ mapped' \subseteq mapped]_vars

(* ---------------- C18 ---------------- *)

\* C18: on an uninitialized region list a successful allocate(n) maps
\* exactly round_up_to_page_size(n + region header size) bytes, writes the
\* first section header directly after the region header with size n and
\* is_free = false, makes it the head section of the region, makes the
\* region the head of the list and returns section address + section
\* header size.
C18_FirstAllocation ==
    [][(MmapCalled /\ IsNone(mmap_memory) /\ ~IsNone(mcall'.ret)) =>
            LET n == mcall'.size
                region == mcall'.base
                section == region + RegionHeaderSize
            IN  /\ mapped' = mapped \cup
                        {[base |-> region, len |-> round_up_to_page_size(n + RegionHeaderSize)]}
                /\ [base |-> region, len |-> round_up_to_page_size(n + RegionHeaderSize)] \notin mapped
                /\ section \in DOMAIN sections'
                /\ sections'[section] = NewSectionHeader(n, FALSE, None, None)
                /\ regions'[region].head_section = Some(section)
                /\ mmap_memory' = Some(region)
                /\ mcall'.ret = Some(section + SectionHeaderSize)]_vars

\* the first call asked for more than a page and returned a pointer
C18_Witness ==
    /\ mcalls = 1
    /\ mcall.size = PageSize
    /\ mcall.len = 2 * PageSize
    /\ mcall.ret = Some(mcall.base + RegionHeaderSize + SectionHeaderSize)
    /\ mmap_memory = Some(mcall.base)

(* ---------------- C19 ---------------- *)

\* no free section of region r can take size bytes
NoFreeSectionFits(r, size) ==
    \A i \in DOMAIN SectionsOf(r) :
        LET sec == sections[SectionsOf(r)[i]]
        IN  ~sec.is_free \/ UsizeLess(sec.size, size)

\* the address directly after the last section of r
AfterLastSection(r) ==
    LET last == SectionsOf(r)[Len(SectionsOf(r))]
    IN  last + SectionHeaderSize + sections[last].size

\* region r has the space and the room for one more section of size bytes
CanAppend(r, size) ==
    /\ size >= 0
    /\ SectionsOf(r) # << >>
    /\ sections[SectionsOf(r)[Len(SectionsOf(r))]].size >= 0
    /\ ~UsizeLess(regions[r].space_available, size)
    /\ NoFreeSectionFits(r, size)
    /\ \E len \in MappedLength(r) :
            AfterLastSection(r) + SectionHeaderSize + size <= r + len

\* C19 (as claimed): when a region of the list has available space for the
\* request, no free section in it is large enough and there is room after
\* its last section, allocate places a new section directly after that
\* last section in the same region and returns its data pointer without
\* mapping a new region.
C19_Claimed ==
    [][(MmapCalled /\ ~mcall'.panic /\ \E r \in RegionList : CanAppend(r, mcall'.size)) =>
            /\ mapped' = mapped
            /\ mcall'.mmap = "none"
            /\ \E r \in RegionList :
                    /\ CanAppend(r, mcall'.size)
                    /\ mcall'.ret = Some(AfterLastSection(r) + SectionHeaderSize)]_vars

(* ---------------- C20 ---------------- *)

\* C20 (as claimed): every deallocate_region call unmaps exactly the byte
\* length that allocate_region mapped for that region: total_space +
\* region header size equals the mapped block size
\* round_up_to_page_size(n + region header size).
C20_Claimed ==
    [][MmapCalled =>
            /\ \A r \in DOMAIN regions' : \A m \in mapped' :
                    m.base = r => regions'[r].total_space + RegionHeaderSize = m.len
            /\ mcall'.rollback => mapped' = mapped]_vars

(* ---------------- C21 ---------------- *)

\* the sum of header size + size over the blocks of run
RECURSIVE SpanOf(_, _)
SpanOf(m, run) ==
    IF run = << >> THEN 0
    ELSE HeaderSize + m[Head(run)].size + SpanOf(m, Tail(run))

\* the blocks that follow block n in the list and are gone from it after the step
Absorbed(n) == SelectSeq(List, LAMBDA a : a # n /\ a \notin DOMAIN mem')

\* the step is a qualloc that merged the run starting at the free block n
\* (n was too small for the request and is the block the call returned)
MergedAt(n) ==
    /\ Called("qualloc")
    /\ hist'[Len(hist')].sbrk = "none"
    /\ hist'[Len(hist')].ret = Some(n + HeaderSize)
    /\ n \in DOMAIN mem
    /\ mem[n].is_free
    /\ mem[n].size < hist'[Len(hist')].arg

\* C21 (as claimed): after a successful merge starting at the free block n1
\* and absorbing the run n2..nk, n1.size is its former size plus the sum of
\* (header size + ni.size) over the run, n1.next is the former successor of
\* nk (or none), that successor's prev is n1, and n2..nk are no longer
\* reachable from the list head.
C21_Claimed ==
    [][ \A n \in DOMAIN mem : MergedAt(n) =>
          LET run == Absorbed(n)
              nk == run[Len(run)]
          IN  /\ run # << >>
              /\ mem'[n].size = mem[n].size + SpanOf(mem, run)
              /\ mem'[n].next = mem[nk].next
              /\ ~IsNone(mem[nk].next) => mem'[Unwrap(mem[nk].next)].prev = Some(n) ]_vars

(* ---------------- C22 ---------------- *)

\* the step is a qudelloc of the pointer of block n, the tail of the list,
\* which has a predecessor
TailFreed(n) ==
    /\ Called("qudelloc")
    /\ hist'[Len(hist')].arg = n + HeaderSize
    /\ n \in DOMAIN mem
    /\ IsNone(mem[n].next)
    /\ ~IsNone(mem[n].prev)

\* C22: qudelloc of a live pointer whose block has no successor but has a
\* predecessor sets the predecessor's next to none, lowers the heap boundary
\* by exactly header size + block.size, and leaves the list head and all
\* other blocks unchanged.
C22_TailFree ==
    [][ \A n \in DOMAIN mem : TailFreed(n) =>
          LET prev == Unwrap(mem[n].prev)
          IN  /\ prev \in DOMAIN mem'
              /\ mem'[prev] = [mem[prev] EXCEPT !.next = None]
              /\ brk' = brk - (HeaderSize + mem[n].size)
              /\ bump_memory' = bump_memory
              /\ DOMAIN mem' = DOMAIN mem \ {n}
              /\ \A a \in DOMAIN mem' : a # prev => mem'[a] = mem[a] ]_vars

\* the last call freed the tail block, which had a predecessor that is now
\* the tail, and the boundary came down to the address of the freed block
C22_Witness ==
    /\ hist # << >>
    /\ TheCall.op = "qudelloc" /\ TheCall.sbrk = "ok"
    /\ ~IsNone(TheCall.head1)
    /\ TheCall.brk1 = TheCall.arg - HeaderSize
    /\ TheCall.brk1 < TheCall.brk0
    /\ List # << >>
    /\ IsNone(mem[List[Len(List)]].next)

\* the regions of the list that have no successor
RegionTails == {r \in RegionList : IsNone(regions[r].next)}

\* C26: when no region of the list takes the request and a new region is
\* mapped and takes the section, the new region becomes the tail (the former
\* tail's next is the new region, the new region's prev is the former tail,
\* its next is none); a region of the list is never unlinked or unmapped;
\* the head never changes once it is set
C26_Claimed ==
    [][ MmapCalled =>
            /\ (~IsNone(mmap_memory) /\ mcall'.mmap = "ok" /\ ~IsNone(mcall'.ret)) =>
                   LET new == mcall'.base
                   IN  /\ new \in DOMAIN regions'
                       /\ RegionTails # {}
                       /\ \A t \in RegionTails : /\ regions'[t].next = Some(new)
                                                 /\ regions'[new].prev = Some(t)
                       /\ IsNone(regions'[new].next)
            /\ \A r \in RegionList : r \in RegionList'
            /\ \A m \in mapped : m.base \in RegionList => m \in mapped'
            /\ ~IsNone(mmap_memory) => mmap_memory' = mmap_memory
      ]_vars

\* C27: in every state where no returned pointer is live, the list head is
\* uninitialized and the boundary is back at its value before the first
\* allocation
C27_Claimed ==
    LivePtrs = {} => /\ IsNone(bump_memory)
                     /\ brk = InitialBreak

\* C28: the list is finite and acyclic, its head has no predecessor, the
\* successor of every node points back at it, and the addresses strictly
\* increase along the list
C28_Claimed ==
    /\ \A i, j \in DOMAIN List : i # j => List[i] # List[j]
    /\ \A i \in DOMAIN List : List[i] \in DOMAIN mem
    /\ List # << >> => IsNone(mem[List[1]].prev)
    /\ \A n \in Range(List) :
           ~IsNone(mem[n].next) =>
               /\ Unwrap(mem[n].next) \in DOMAIN mem
               /\ mem[Unwrap(mem[n].next)].prev = Some(n)
               /\ n < Unwrap(mem[n].next)

\* qudelloc is releasing the block whose header is at n: the step is the head
\* check of qudelloc(n + header size) or the loop iteration that reached n
Releasing(n) ==
    \/ QudellocEnter(n + HeaderSize) /\ bump_memory = Some(n)
    \/ FreeStep /\ walk.arg = n + HeaderSize /\ walk.current_node = Some(n)

\* the bytes of every block the caller holds lie below the break
LiveBelowBreak ==
    \A i \in DOMAIN live : live[i].ptr + align_up(live[i].size) <= brk

\* C23: the boundary decreases only inside qudelloc, only for the block being
\* deallocated and only when that block is the tail (so never in qualloc),
\* and no memory of a live block is ever returned to the OS
C23_Claimed ==
    [][ /\ brk' < brk => \E n \in DOMAIN mem : Releasing(n) /\ IsNone(mem[n].next)
        /\ LiveBelowBreak'
      ]_vars

\* C25: a merge that returns no merged block changes nothing: while the size
\* accumulated by merge_adjacent_free_blocks is below the requested size,
\* and when it returns for that reason, every header, the head and the
\* boundary are as they were
C25_Frame ==
    [][ (MergeStep /\ walk.acumulated_size < walk.arg) =>
            /\ mem' = mem
            /\ bump_memory' = bump_memory
            /\ brk' = brk
      ]_vars

\* a merge has just failed: the scan has left a free block that is too small
\* for the request, after the merge started there examined its free
\* successor as well
C25_Witness ==
    /\ walk.pc = "scan"
    /\ ~IsNone(walk.last_node)
    /\ walk.current_node # walk.last_node
    /\ LET n == Unwrap(walk.last_node)
       IN  /\ mem[n].is_free
           /\ mem[n].size < walk.arg
           /\ ~IsNone(mem[n].next)
           /\ mem[Unwrap(mem[n].next)].is_free
           /\ n + HeaderSize + mem[n].size = Unwrap(mem[n].next)

\* the scan of qualloc is at node n
ScanAt(n) == walk.pc \in {"scan", "merge"} /\ walk.current_node = Some(n)

\* the merge started at the node under the scan returns without a merged block
MergeFails ==
    /\ MergeStep
    /\ walk'.pc = "scan"
    /\ walk.acumulated_size < walk.arg

\* C24 (resumption): after a failed merge the scan resumes at the last node
\* the merge examined, or at the successor of the node it started from when
\* that is the only node it examined, and a step of the scan never moves
\* back to a node that precedes the one it is at
C24_Forward ==
    [][ /\ MergeFails =>
              LET node == Unwrap(walk.current_node)
                  last == IF mem[walk.current_block].is_free
                          THEN Some(walk.current_block)
                          ELSE walk.last_scanned_block
              IN  walk'.current_node = IF last # Some(node) THEN last ELSE mem[node].next
        /\ \A n \in DOMAIN mem :
              ScanAt(n) /\ walk'.pc \in {"scan", "merge"} /\ ~IsNone(walk'.current_node)
                  => Unwrap(walk'.current_node) >= n
      ]_vars

\* the call in progress can take a step that changes its locals or the
\* list: the loops are deterministic, so a call that cannot is at an
\* iteration that leaves everything as it found it, and repeats it forever
CanAdvance ==
    ENABLED <<ScanStep \/ MergeStep \/ \E ok \in BOOLEAN, zeroed \in BOOLEAN : Grow(ok, zeroed)>>_vars

\* C24 (termination): a call of qualloc that is scanning the list is never
\* at an iteration that repeats itself
C24_NeverSpins ==
    (~crashed /\ walk.pc \in {"scan", "merge"}) => CanAdvance

\* C24: the scan resumes after a failed merge where the merge stopped, never
\* moves back, and always terminates
C24_Claimed == C24_Forward /\ []C24_NeverSpins
====
